---- MODULE Spec2Model ----
\* Verification model of the resilient query-orchestration core of the
\* Dynamic Agentic Systems frontend: the error classifier and retry executor
\* (frontend/lib/error-handler.ts), the remote query call
\* (frontend/lib/real-api.ts), the orchestrating hook
\* (frontend/hooks/use-query-processing.ts), the result cache and metrics
\* recorder (PerformanceOptimizer), the dashboard's handleSendMessage
\* (frontend/components/dashboard-layout.tsx), the progress event bus
\* (WebSocketSimulation) and the connection to the backend
\* (frontend/lib/websocket.ts).
\*
\* String.prototype.includes and template concatenation are computed on the
\* characters of the strings, not assumed.  The empty string value stands for
\* a missing (undefined) or empty string: both are falsy and both make
\* `s?.includes(x)` falsy, which are the only ways the code reads them.
EXTENDS Integers, Sequences, FiniteSets, TLC

VARIABLES
  retryAttempts,  \* ErrorHandler.retryAttempts : Map<operationId, number>
  call,           \* the executeWithRetry invocations, one per caller
  query,          \* the useQueryProcessing.sendQuery invocation
  cls,            \* a classification request: parseError applied to one raw failure
  cache,          \* PerformanceOptimizer.cache : Map<string, CacheEntry>
  now,            \* Date.now(), in milliseconds since construction
  lookup,         \* observation: the last setCache / getCache call and its result
  performanceHistory,  \* PerformanceOptimizer.performanceHistory
  metrics,        \* PerformanceOptimizer.metrics
  dash,           \* the DashboardLayout.handleSendMessage invocation
  isSimulating,   \* WebSocketSimulation.isSimulating
  eventListeners, \* WebSocketSimulation.eventListeners : Map<event, handler[]>
  runs,           \* the startQueryTracing invocations of the simulation
  emitted,        \* observation: the last emit call of the simulation
  client          \* the WebSocketClient and its socket

\* The state of the error handler and of the query hook.
queryVars == <<retryAttempts, call, query, cls>>

\* The state of the performance optimizer and of the dashboard.
perfVars == <<cache, now, lookup, performanceHistory, metrics, dash>>

\* The state of the progress event bus.
busVars == <<isSimulating, eventListeners, runs, emitted>>

\* The state of the WebSocket client.
wsVars == <<client>>

vars == <<queryVars, perfVars, busVars, wsVars>>

\* ---------------------------------------------------------------------
\* JavaScript strings
\* ---------------------------------------------------------------------

\* A string value is a sequence of tokens, each a string literal of the
\* source, a text the environment supplies, or a single character; the value
\* is the concatenation of its tokens.

\* A string literal as a string value.
Str(t) == <<t>>

\* The characters of a token (a token not listed is a single character).
Spelling(t) ==
  CASE t = "42" ->
         <<"4","2">>
    [] t = "API rate limit exceeded" ->
         <<"A","P","I"," ","r","a","t","e"," ","l","i","m","i","t"," ","e","x","c","e","e","d","e","d">>
    [] t = "API rate limit exceeded. Please wait a moment before trying again." ->
         <<"A","P","I"," ","r","a","t","e"," ","l","i","m","i","t"," ","e","x","c","e","e","d","e","d","."," ","P","l","e","a","s","e"," ","w","a","i","t"," ","a"," ","m","o","m","e","n","t"," ","b","e","f","o","r","e"," ","t","r","y","i","n","g"," ","a","g","a","i","n",".">>
    [] t = "An unexpected error occurred." ->
         <<"A","n"," ","u","n","e","x","p","e","c","t","e","d"," ","e","r","r","o","r"," ","o","c","c","u","r","r","e","d",".">>
    [] t = "Authentication failed" ->
         <<"A","u","t","h","e","n","t","i","c","a","t","i","o","n"," ","f","a","i","l","e","d">>
    [] t = "Authentication failed. Please check your API key configuration." ->
         <<"A","u","t","h","e","n","t","i","c","a","t","i","o","n"," ","f","a","i","l","e","d","."," ","P","l","e","a","s","e"," ","c","h","e","c","k"," ","y","o","u","r"," ","A","P","I"," ","k","e","y"," ","c","o","n","f","i","g","u","r","a","t","i","o","n",".">>
    [] t = "Cannot read properties of undefined" ->
         <<"C","a","n","n","o","t"," ","r","e","a","d"," ","p","r","o","p","e","r","t","i","e","s"," ","o","f"," ","u","n","d","e","f","i","n","e","d">>
    [] t = "Failed to fetch" ->
         <<"F","a","i","l","e","d"," ","t","o"," ","f","e","t","c","h">>
    [] t = "HTTP error! status: " ->
         <<"H","T","T","P"," ","e","r","r","o","r","!"," ","s","t","a","t","u","s",":"," ">>
    [] t = "I apologize, but I encountered an error processing your request. Please try again." ->
         <<"I"," ","a","p","o","l","o","g","i","z","e",","," ","b","u","t"," ","I"," ","e","n","c","o","u","n","t","e","r","e","d"," ","a","n"," ","e","r","r","o","r"," ","p","r","o","c","e","s","s","i","n","g"," ","y","o","u","r"," ","r","e","q","u","e","s","t","."," ","P","l","e","a","s","e"," ","t","r","y"," ","a","g","a","i","n",".">>
    [] t = "Invalid request" ->
         <<"I","n","v","a","l","i","d"," ","r","e","q","u","e","s","t">>
    [] t = "Invalid request format. Please check your input and try again." ->
         <<"I","n","v","a","l","i","d"," ","r","e","q","u","e","s","t"," ","f","o","r","m","a","t","."," ","P","l","e","a","s","e"," ","c","h","e","c","k"," ","y","o","u","r"," ","i","n","p","u","t"," ","a","n","d"," ","t","r","y"," ","a","g","a","i","n",".">>
    [] t = "Invalid request format. Please check your input." ->
         <<"I","n","v","a","l","i","d"," ","r","e","q","u","e","s","t"," ","f","o","r","m","a","t","."," ","P","l","e","a","s","e"," ","c","h","e","c","k"," ","y","o","u","r"," ","i","n","p","u","t",".">>
    [] t = "Model overloaded" ->
         <<"M","o","d","e","l"," ","o","v","e","r","l","o","a","d","e","d">>
    [] t = "Network connection failed" ->
         <<"N","e","t","w","o","r","k"," ","c","o","n","n","e","c","t","i","o","n"," ","f","a","i","l","e","d">>
    [] t = "Network connection failed. Please check your internet connection and try again." ->
         <<"N","e","t","w","o","r","k"," ","c","o","n","n","e","c","t","i","o","n"," ","f","a","i","l","e","d","."," ","P","l","e","a","s","e"," ","c","h","e","c","k"," ","y","o","u","r"," ","i","n","t","e","r","n","e","t"," ","c","o","n","n","e","c","t","i","o","n"," ","a","n","d"," ","t","r","y"," ","a","g","a","i","n",".">>
    [] t = "Operation timed out" ->
         <<"O","p","e","r","a","t","i","o","n"," ","t","i","m","e","d"," ","o","u","t">>
    [] t = "Query failed" ->
         <<"Q","u","e","r","y"," ","f","a","i","l","e","d">>
    [] t = "Rate limit exceeded" ->
         <<"R","a","t","e"," ","l","i","m","i","t"," ","e","x","c","e","e","d","e","d">>
    [] t = "Request timed out" ->
         <<"R","e","q","u","e","s","t"," ","t","i","m","e","d"," ","o","u","t">>
    [] t = "Request timed out. The server may be experiencing high load. Please try again." ->
         <<"R","e","q","u","e","s","t"," ","t","i","m","e","d"," ","o","u","t","."," ","T","h","e"," ","s","e","r","v","e","r"," ","m","a","y"," ","b","e"," ","e","x","p","e","r","i","e","n","c","i","n","g"," ","h","i","g","h"," ","l","o","a","d","."," ","P","l","e","a","s","e"," ","t","r","y"," ","a","g","a","i","n",".">>
    [] t = "Request timeout" ->
         <<"R","e","q","u","e","s","t"," ","t","i","m","e","o","u","t">>
    [] t = "Request validation failed" ->
         <<"R","e","q","u","e","s","t"," ","v","a","l","i","d","a","t","i","o","n"," ","f","a","i","l","e","d">>
    [] t = "Server error" ->
         <<"S","e","r","v","e","r"," ","e","r","r","o","r">>
    [] t = "Server error occurred. Please try again in a moment." ->
         <<"S","e","r","v","e","r"," ","e","r","r","o","r"," ","o","c","c","u","r","r","e","d","."," ","P","l","e","a","s","e"," ","t","r","y"," ","a","g","a","i","n"," ","i","n"," ","a"," ","m","o","m","e","n","t",".">>
    [] t = "Server processing error" ->
         <<"S","e","r","v","e","r"," ","p","r","o","c","e","s","s","i","n","g"," ","e","r","r","o","r">>
    [] t = "Too many requests. Please wait a moment and try again." ->
         <<"T","o","o"," ","m","a","n","y"," ","r","e","q","u","e","s","t","s","."," ","P","l","e","a","s","e"," ","w","a","i","t"," ","a"," ","m","o","m","e","n","t"," ","a","n","d"," ","t","r","y"," ","a","g","a","i","n",".">>
    [] t = "Unexpected token" ->
         <<"U","n","e","x","p","e","c","t","e","d"," ","t","o","k","e","n">>
    [] t = "Unknown backend error" ->
         <<"U","n","k","n","o","w","n"," ","b","a","c","k","e","n","d"," ","e","r","r","o","r">>
    [] t = "Unknown error occurred" ->
         <<"U","n","k","n","o","w","n"," ","e","r","r","o","r"," ","o","c","c","u","r","r","e","d">>
    [] t = "boom" ->
         <<"b","o","o","m">>
    [] t = "fetch" ->
         <<"f","e","t","c","h">>
    [] t = "rate limit" ->
         <<"r","a","t","e"," ","l","i","m","i","t">>
    [] t = "rate limit hit" ->
         <<"r","a","t","e"," ","l","i","m","i","t"," ","h","i","t">>
    [] t = "timeout" ->
         <<"t","i","m","e","o","u","t">>
    [] t = "validation" ->
         <<"v","a","l","i","d","a","t","i","o","n">>
    [] t = "moving average" ->
         <<"m","o","v","i","n","g"," ","a","v","e","r","a","g","e">>
    [] t = "Moving Average" ->
         <<"M","o","v","i","n","g"," ","A","v","e","r","a","g","e">>
    [] t = " moving average " ->
         <<" ","m","o","v","i","n","g"," ","a","v","e","r","a","g","e"," ">>
    [] t = "the moving average" ->
         <<"t","h","e"," ","m","o","v","i","n","g"," ","a","v","e","r","a","g","e">>
    [] t = "calculate 50-day moving average" ->
         <<"c","a","l","c","u","l","a","t","e"," ","5","0","-","d","a","y"," ","m","o","v","i","n","g"," ","a","v","e","r","a","g","e">>
    [] t = "answer A" ->
         <<"a","n","s","w","e","r"," ","A">>
    [] t = "answer B" ->
         <<"a","n","s","w","e","r"," ","B">>
    [] t = "calculate 50-day moving average of AAPL" ->
         <<"c","a","l","c","u","l","a","t","e"," ","5","0","-","d","a","y"," ","m","o","v","i","n","g"," ","a","v","e","r","a","g","e"," ","o","f"," ","A","A","P","L">>
    [] OTHER -> <<t>>

\* The characters of a string value.
RECURSIVE Chars(_)
Chars(s) == IF s = <<>> THEN <<>> ELSE Spelling(Head(s)) \o Chars(Tail(s))

\* String.prototype.includes: sub occurs in s as a contiguous substring.
Includes(s, sub) ==
  LET cs == Chars(s)
      csub == Chars(sub)
  IN \E i \in 0..(Len(cs) - Len(csub)) : SubSeq(cs, i + 1, i + Len(csub)) = csub

\* ---------------------------------------------------------------------
\* JavaScript primitives
\* ---------------------------------------------------------------------

\* a || b on strings: a unless it is falsy (empty / undefined).
OrElse(a, b) == IF a # <<>> THEN a ELSE b

DigitChars == <<"0","1","2","3","4","5","6","7","8","9">>

\* Number -> decimal string, as template interpolation `${n}` does (n >= 0).
RECURSIVE NumberToString(_)
NumberToString(n) ==
  IF n < 10 THEN <<DigitChars[n + 1]>>
  ELSE NumberToString(n \div 10) \o <<DigitChars[(n % 10) + 1]>>

\* Math.pow(b, e) for a natural exponent.
RECURSIVE Pow(_, _)
Pow(b, e) == IF e = 0 THEN 1 ELSE b * Pow(b, e - 1)

\* The characters with codes 32..126, in code order ("grave" stands for the
\* grave accent, code 96, which a string of this notation cannot hold).
Ascii ==
  <<
    " ","!","\"","#","$","%","&","'","(",")","*","+",",","-",".","/","0","1","2",
    "3","4","5","6","7","8","9",":",";","<","=",">","?","@","A","B","C","D","E",
    "F","G","H","I","J","K","L","M","N","O","P","Q","R","S","T","U","V","W","X",
    "Y","Z","[","\\","]","^","_","grave","a","b","c","d","e","f","g","h","i","j","k",
    "l","m","n","o","p","q","r","s","t","u","v","w","x","y","z","{","|","}","~"
  >>

\* String.prototype.charCodeAt / String.fromCharCode on these characters.
CharCode(c) == 31 + (CHOOSE i \in 1..Len(Ascii) : Ascii[i] = c)
FromCharCode(n) == Ascii[n - 31]

\* The characters of a string as one string value.
RECURSIVE Join(_)
Join(cs) == IF cs = <<>> THEN "" ELSE Head(cs) \o Join(Tail(cs))

\* String.prototype.toLowerCase
ToLowerCase(cs) ==
  [i \in 1..Len(cs) |->
     IF CharCode(cs[i]) \in 65..90 THEN FromCharCode(CharCode(cs[i]) + 32) ELSE cs[i]]

\* String.prototype.trim (the only white space in the texts is the space)
RECURSIVE Trim(_)
Trim(cs) ==
  IF cs = <<>> THEN cs
  ELSE IF Head(cs) = " " THEN Trim(Tail(cs))
  ELSE IF cs[Len(cs)] = " " THEN Trim(SubSeq(cs, 1, Len(cs) - 1))
  ELSE cs

\* String.prototype.split(' '): the pieces between the spaces, empty pieces
\* included.
RECURSIVE Split(_)
Split(cs) ==
  IF \A i \in 1..Len(cs) : cs[i] # " " THEN <<cs>>
  ELSE LET i == CHOOSE j \in 1..Len(cs) : cs[j] = " " /\ \A k \in 1..(j - 1) : cs[k] # " "
       IN <<SubSeq(cs, 1, i - 1)>> \o Split(SubSeq(cs, i + 1, Len(cs)))

\* Array.prototype.join(' ')
RECURSIVE JoinWords(_)
JoinWords(ws) ==
  IF ws = <<>> THEN <<>>
  ELSE IF Len(ws) = 1 THEN ws[1]
  ELSE ws[1] \o <<" ">> \o JoinWords(Tail(ws))

\* The base64 alphabet of btoa.
Base64Alphabet ==
  <<
    "A","B","C","D","E","F","G","H","I","J","K","L","M","N","O","P",
    "Q","R","S","T","U","V","W","X","Y","Z","a","b","c","d","e","f",
    "g","h","i","j","k","l","m","n","o","p","q","r","s","t","u","v",
    "w","x","y","z","0","1","2","3","4","5","6","7","8","9","+","/"
  >>

\* btoa: three bytes become four characters of the alphabet; a last group of
\* one or two bytes is padded with "=".
RECURSIVE Btoa(_)
Btoa(cs) ==
  IF cs = <<>> THEN <<>>
  ELSE LET n == Len(cs)
           b1 == CharCode(cs[1])
           b2 == IF n >= 2 THEN CharCode(cs[2]) ELSE 0
           b3 == IF n >= 3 THEN CharCode(cs[3]) ELSE 0
           bits == b1 * 65536 + b2 * 256 + b3
       IN << Base64Alphabet[(bits \div 262144) + 1],
             Base64Alphabet[((bits \div 4096) % 64) + 1],
             IF n >= 2 THEN Base64Alphabet[((bits \div 64) % 64) + 1] ELSE "=",
             IF n >= 3 THEN Base64Alphabet[(bits % 64) + 1] ELSE "=" >>
          \o Btoa(SubSeq(cs, 4, n))

\* /[a-zA-Z0-9]/
IsAlphanumeric(c) ==
  CharCode(c) \in (48..57) \cup (65..90) \cup (97..122)

\* ---------------------------------------------------------------------
\* Raw failures: the values an operation can reject with
\* ---------------------------------------------------------------------

\* error.status is undefined
NoStatus == -1
\* error.response is undefined (respStatus = NoStatus: a response object
\* without a status)
NoResponse == -2

\* A raw failure.  kind is the JavaScript type of the thrown value; for
\* "null", "undefined" and "string" every property read yields undefined.
\*   status     error.status            (NoStatus when undefined)
\*   respStatus error.response?.status  (NoResponse when error.response is undefined)
\*   name       error.name              ("" when undefined)
\*   message    error.message
\*   dataError  (error.data || error.response?.data)?.error
RawObject(status, respStatus, name, message, dataError) ==
  [kind |-> "object", status |-> status, respStatus |-> respStatus,
   name |-> name, message |-> message, dataError |-> dataError]

RawPrimitive(kind) ==
  [kind |-> kind, status |-> NoStatus, respStatus |-> NoResponse,
   name |-> "", message |-> <<>>, dataError |-> <<>>]

\* new Error(message)
ErrorObj(message) == RawObject(NoStatus, NoResponse, "Error", message, <<>>)

\* new TypeError(message)
TypeErrorObj(message) == RawObject(NoStatus, NoResponse, "TypeError", message, <<>>)

\* ---------------------------------------------------------------------
\* ErrorHandler: classification
\* ---------------------------------------------------------------------

\* ErrorContext (timestamp and details are not modelled: no code path of the
\* model reads them).  code = NoStatus when the field is undefined.
ErrorContext(type, message, code, retryable, userMessage) ==
  [type |-> type, message |-> message, code |-> code,
   retryable |-> retryable, userMessage |-> userMessage]

\* lastError = null
NoError == ErrorContext("none", <<>>, NoStatus, FALSE, <<>>)

\* storageService.getErrorConfig() defaults
DefaultMaxRetries == 3
DefaultRetryDelay == 1000
DefaultTimeoutMs == 30000
\* executeWithRetry's own default
DefaultBackoffMultiplier == 2

\* const status = error.status || error.response?.status
BackendStatus(error) ==
  IF error.status # NoStatus /\ error.status # 0 THEN error.status
  ELSE IF error.respStatus # NoResponse THEN error.respStatus
  ELSE NoStatus

\* const errorMessage = data?.error || error.message
BackendErrorMessage(error) == OrElse(error.dataError, error.message)

handleBackendApiError(error) ==
  LET status == BackendStatus(error)
      errorMessage == BackendErrorMessage(error)
  IN CASE status = 400 ->
            ErrorContext("validation", OrElse(errorMessage, Str("Invalid request")),
                         status, FALSE, OrElse(errorMessage, Str("Invalid request format. Please check your input.")))
       [] status = 401 ->
            ErrorContext("authentication", Str("Authentication failed"),
                         status, FALSE, Str("Authentication failed. Please check your API key configuration."))
       [] status = 429 ->
            ErrorContext("api_limit", Str("Rate limit exceeded"),
                         status, TRUE, Str("Too many requests. Please wait a moment and try again."))
       [] status \in {500, 502, 503} ->
            ErrorContext("processing", OrElse(errorMessage, Str("Server error")),
                         status, TRUE, OrElse(errorMessage, Str("Server error occurred. Please try again in a moment.")))
       [] OTHER ->
            ErrorContext("unknown", OrElse(errorMessage, Str("Unknown backend error")),
                         status, FALSE, OrElse(errorMessage, Str("An unexpected error occurred.")))

\* error.response || (error.status && typeof error.status === 'number')
IsBackendApiError(error) ==
  \/ error.respStatus # NoResponse
  \/ (error.status # NoStatus /\ error.status # 0)

\* The result of evaluating parseError: an ErrorContext, or a TypeError
\* thrown while reading a property of null / undefined.
Returned(ctx) == [thrown |-> FALSE, ctx |-> ctx]
Thrown == [thrown |-> TRUE, ctx |-> NoError]

\* Mutant: the timeout heuristic is tried before the network heuristic.
parseErrorHeuristics_TimeoutFirst(error, fallbackResponse) ==
  IF error.name = "TimeoutError" \/ Includes(error.message, Str("timeout")) THEN
    ErrorContext("timeout", Str("Request timed out"), NoStatus, TRUE, Str("Request timed out. The server may be experiencing high load. Please try again."))
  ELSE IF error.name = "NetworkError" \/ Includes(error.message, Str("fetch")) THEN
    ErrorContext("network", Str("Network connection failed"), NoStatus, TRUE, Str("Network connection failed. Please check your internet connection and try again."))
  ELSE IF error.status = 429 \/ Includes(error.message, Str("rate limit")) THEN
    ErrorContext("api_limit", Str("API rate limit exceeded"), error.status, TRUE,
                 Str("API rate limit exceeded. Please wait a moment before trying again."))
  ELSE IF error.status = 401 \/ error.status = 403 THEN
    ErrorContext("authentication", Str("Authentication failed"), error.status, FALSE,
                 Str("Authentication failed. Please check your API key configuration."))
  ELSE IF error.status = 400 \/ Includes(error.message, Str("validation")) THEN
    ErrorContext("validation", Str("Request validation failed"), error.status, FALSE,
                 Str("Invalid request format. Please check your input and try again."))
  ELSE IF error.status >= 500 THEN
    ErrorContext("processing", Str("Server processing error"), error.status, TRUE,
                 Str("Server error occurred. Please try again in a moment."))
  ELSE
    ErrorContext("unknown", OrElse(error.message, Str("Unknown error occurred")),
                 NoStatus, FALSE, fallbackResponse)

\* The heuristic chain of parseError (lines 128-212), first match wins.
parseErrorHeuristics(error, fallbackResponse) ==
  IF error.name = "NetworkError" \/ Includes(error.message, Str("fetch")) THEN
    ErrorContext("network", Str("Network connection failed"), NoStatus, TRUE, Str("Network connection failed. Please check your internet connection and try again."))
  ELSE IF error.name = "TimeoutError" \/ Includes(error.message, Str("timeout")) THEN
    ErrorContext("timeout", Str("Request timed out"), NoStatus, TRUE, Str("Request timed out. The server may be experiencing high load. Please try again."))
  ELSE IF error.status = 429 \/ Includes(error.message, Str("rate limit")) THEN
    ErrorContext("api_limit", Str("API rate limit exceeded"), error.status, TRUE,
                 Str("API rate limit exceeded. Please wait a moment before trying again."))
  ELSE IF error.status = 401 \/ error.status = 403 THEN
    ErrorContext("authentication", Str("Authentication failed"), error.status, FALSE,
                 Str("Authentication failed. Please check your API key configuration."))
  ELSE IF error.status = 400 \/ Includes(error.message, Str("validation")) THEN
    ErrorContext("validation", Str("Request validation failed"), error.status, FALSE,
                 Str("Invalid request format. Please check your input and try again."))
  ELSE IF error.status >= 500 THEN
    ErrorContext("processing", Str("Server processing error"), error.status, TRUE,
                 Str("Server error occurred. Please try again in a moment."))
  ELSE
    ErrorContext("unknown", OrElse(error.message, Str("Unknown error occurred")),
                 NoStatus, FALSE, fallbackResponse)

\* Mutant: the message/name heuristics are tried before the status.
parseError_HeuristicsFirst(error) ==
  IF error.kind \in {"null", "undefined"} THEN Thrown
  ELSE LET h == parseErrorHeuristics(error, Str("I apologize, but I encountered an error processing your request. Please try again."))
       IN IF h.type # "unknown" THEN Returned(h)
          ELSE IF IsBackendApiError(error) THEN Returned(handleBackendApiError(error))
          ELSE Returned(h)

parseError(error) ==
  IF error.kind \in {"null", "undefined"} THEN Thrown
  ELSE IF IsBackendApiError(error) THEN Returned(handleBackendApiError(error))
  ELSE Returned(parseErrorHeuristics(error, Str("I apologize, but I encountered an error processing your request. Please try again.")))

\* ---------------------------------------------------------------------
\* Bounds of the model
\* ---------------------------------------------------------------------

\* Largest maxRetries a caller passes in customConfig.
MaxRetriesBound == 3

\* ---------------------------------------------------------------------
\* ErrorHandler.retryAttempts : Map<string, number>
\* ---------------------------------------------------------------------

\* this.retryAttempts.has(id)
isRetrying(operationId) == operationId \in DOMAIN retryAttempts

\* this.retryAttempts.get(id) || 0
getRetryCount(operationId) ==
  IF operationId \in DOMAIN retryAttempts THEN retryAttempts[operationId] ELSE 0

\* new Map()
EmptyMap == [k \in {} |-> 0]

\* map.delete(id)
MapDelete(map, id) == [k \in (DOMAIN map) \ {id} |-> map[k]]

\* map.set(id, v)
MapSet(map, id, v) == [k \in (DOMAIN map) \cup {id} |-> IF k = id THEN v ELSE map[k]]

\* ---------------------------------------------------------------------
\* ErrorHandler.executeWithRetry
\* ---------------------------------------------------------------------

\* The two callers of executeWithRetry in the model: an arbitrary caller
\* with an arbitrary operation, and the sendQuery hook whose operation is
\* api.sendQuery.
Calls == {"caller", "query"}

\* Operation ids.  Each logical operation has its own id (the hook derives
\* it from Date.now()).
CallerOpId == "op-1"
QueryOpId == "query-T"

\* { maxRetries, retryDelay, backoffMultiplier: 2, timeoutMs, ...customConfig }
RetryConfig(maxRetries, retryDelay, backoffMultiplier) ==
  [maxRetries |-> maxRetries, retryDelay |-> retryDelay,
   backoffMultiplier |-> backoffMultiplier, timeoutMs |-> DefaultTimeoutMs]

DefaultRetryConfig ==
  RetryConfig(DefaultMaxRetries, DefaultRetryDelay, DefaultBackoffMultiplier)

\* The configurations the arbitrary caller passes: every retry budget up to
\* the bound, with the default delay and multiplier or with both overridden.
CallerConfigs ==
  { RetryConfig(n, p[1], p[2]) :
      n \in 0..MaxRetriesBound,
      p \in {<<DefaultRetryDelay, DefaultBackoffMultiplier>>, <<500, 3>>} }

\* A value an operation resolves with: ApiResponse<QueryResponse> reduced to
\* what sendQuery reads (success, error, whether data is present).
ApiResponse(success, error, hasData) ==
  [success |-> success, error |-> error, hasData |-> hasData]

NoValue == ApiResponse(FALSE, <<>>, FALSE)
CallerValue == ApiResponse(TRUE, <<>>, TRUE)

\* An executeWithRetry invocation.
\*   pc            idle | waiting (operation in flight, racing the timeout)
\*                 | backoff (in delay()) | resolved | rejected
\*   attempt       the loop variable
\*   currentAttempt  the count read from retryAttempts on entry
\*   lastError     the ErrorContext of the last classified failure
\*   settledWith   "" | "value" | "context" (rejected with lastError)
\*                 | "raw" (rejected with an exception parseError threw)
\*   invocations, slept, lastFailure, allRetryable
\*                 observations: calls of operation(), the delays slept, the
\*                 raw failure of the last failed attempt, and whether every
\*                 failed attempt so far was classified retryable
IdleCall ==
  [pc |-> "idle", id |-> "", cfg |-> DefaultRetryConfig, attempt |-> 0,
   currentAttempt |-> 0, lastError |-> NoError, settledWith |-> "",
   value |-> NoValue, invocations |-> 0, slept |-> <<>>,
   lastFailure |-> RawPrimitive("undefined"), allRetryable |-> TRUE,
   timedOut |-> FALSE]

\* Mutant: the timer rejects with a message parseError classifies as TIMEOUT.
TimeoutFailure_Retryable == ErrorObj(Str("Request timeout"))

\* new Error('Operation timed out'), what withTimeout rejects with
TimeoutFailure == ErrorObj(Str("Operation timed out"))

\* for (...; attempt <= config.maxRetries; ...)
LoopContinues(attempt, maxRetries) == attempt <= maxRetries

\* Mutant: the retry budget test is off by one (attempt > maxRetries).
ShouldStop_OffByOne(lastError, attempt, maxRetries) ==
  ~lastError.retryable \/ attempt > maxRetries

\* Mutant: the retryable flag is not consulted.
ShouldStop_IgnoresRetryable(lastError, attempt, maxRetries) ==
  attempt >= maxRetries

\* if (!lastError.retryable || attempt >= config.maxRetries) break
ShouldStop(lastError, attempt, maxRetries) ==
  ~lastError.retryable \/ attempt >= maxRetries

\* config.retryDelay * Math.pow(config.backoffMultiplier, attempt)
BackoffDelay(cfg, attempt) == cfg.retryDelay * Pow(cfg.backoffMultiplier, attempt)

\* Mutant: the stored count is not cleared.
ClearOnAttempt_Skipped(map, operationId) == map

\* this.retryAttempts.delete(operationId), first statement of each attempt
ClearOnAttempt(map, operationId) == MapDelete(map, operationId)

\* this.retryAttempts.set(operationId, currentAttempt + attempt + 1)
RecordRetry(map, operationId, currentAttempt, attempt) ==
  MapSet(map, operationId, currentAttempt + attempt + 1)

\* Entry of executeWithRetry up to its first await: read the config and the
\* stored count, enter the loop with attempt = 0, clear the stored count and
\* invoke operation() under withTimeout.
ExecuteWithRetryBegin(c, operationId, cfg) ==
  /\ call[c].pc \in {"idle", "resolved", "rejected"}
  /\ LoopContinues(0, cfg.maxRetries)
  /\ call' = [call EXCEPT ![c] =
                [IdleCall EXCEPT !.pc = "waiting", !.id = operationId, !.cfg = cfg,
                                 !.currentAttempt = getRetryCount(operationId),
                                 !.invocations = 1]]
  /\ retryAttempts' = ClearOnAttempt(retryAttempts, operationId)

\* The operation's promise resolved before the timeout: return result.
AttemptResolved(c, value) ==
  /\ call[c].pc = "waiting"
  /\ call' = [call EXCEPT ![c].pc = "resolved", ![c].settledWith = "value",
                          ![c].value = value]
  /\ UNCHANGED retryAttempts

\* The catch block of one attempt, entered with the raw failure.
AttemptFailed(c, failure, byTimeout) ==
  LET s == call[c]
      parsed == parseError(failure)
      lastError == parsed.ctx
      seen == [s EXCEPT !.lastFailure = failure, !.timedOut = byTimeout]
      classified == [seen EXCEPT !.lastError = lastError,
                                 !.allRetryable = s.allRetryable /\ lastError.retryable]
  IN /\ s.pc = "waiting"
     /\ IF parsed.thrown THEN
          \* parseError threw inside the catch block: the exception leaves
          \* executeWithRetry
          /\ call' = [call EXCEPT ![c] = [seen EXCEPT !.pc = "rejected",
                                                      !.settledWith = "raw"]]
          /\ UNCHANGED retryAttempts
        ELSE IF ShouldStop(lastError, s.attempt, s.cfg.maxRetries) THEN
          \* break; throw lastError
          /\ call' = [call EXCEPT ![c] = [classified EXCEPT !.pc = "rejected",
                                                            !.settledWith = "context"]]
          /\ UNCHANGED retryAttempts
        ELSE
          /\ retryAttempts' = RecordRetry(retryAttempts, s.id, s.currentAttempt, s.attempt)
          /\ call' = [call EXCEPT ![c] =
                        [classified EXCEPT !.pc = "backoff",
                                          !.slept = Append(s.slept, BackoffDelay(s.cfg, s.attempt))]]

\* Mutant: withTimeout races the operation against nothing.
AttemptTimedOut_NoTimer(c) == FALSE

\* withTimeout's timer fired before the operation settled.
AttemptTimedOut(c) == AttemptFailed(c, TimeoutFailure, TRUE)

\* delay() elapsed: attempt++, then either the next attempt (clear the stored
\* count, invoke operation() again) or, the loop being over, throw lastError.
BackoffElapsed(c) ==
  LET s == call[c]
  IN /\ s.pc = "backoff"
     /\ IF LoopContinues(s.attempt + 1, s.cfg.maxRetries) THEN
          /\ call' = [call EXCEPT ![c].pc = "waiting", ![c].attempt = s.attempt + 1,
                                  ![c].invocations = s.invocations + 1]
          /\ retryAttempts' = ClearOnAttempt(retryAttempts, s.id)
        ELSE
          /\ call' = [call EXCEPT ![c].pc = "rejected", ![c].attempt = s.attempt + 1,
                                  ![c].settledWith = "context"]
          /\ UNCHANGED retryAttempts

\* ---------------------------------------------------------------------
\* An arbitrary caller of executeWithRetry
\* ---------------------------------------------------------------------

\* The raw failures the caller's operation rejects with.
OpFailures ==
  { RawObject(503, NoResponse, "Error", Str("boom"), <<>>),
    RawObject(429, NoResponse, "Error", <<>>, <<>>),
    RawObject(400, NoResponse, "Error", Str("boom"), <<>>),
    RawObject(401, NoResponse, "Error", <<>>, <<>>),
    RawObject(NoStatus, NoResponse, "TypeError", Str("Failed to fetch"), <<>>),
    RawObject(NoStatus, NoResponse, "Error", Str("Request timeout"), <<>>),
    ErrorObj(Str("boom")),
    RawPrimitive("string"),
    RawPrimitive("null") }

CallerStart ==
  /\ \E cfg \in CallerConfigs : ExecuteWithRetryBegin("caller", CallerOpId, cfg)
  /\ UNCHANGED <<query, cls, perfVars, busVars, wsVars>>

CallerOpResolves ==
  /\ AttemptResolved("caller", CallerValue)
  /\ UNCHANGED <<query, cls, perfVars, busVars, wsVars>>

CallerOpRejects ==
  /\ \E f \in OpFailures : AttemptFailed("caller", f, FALSE)
  /\ UNCHANGED <<query, cls, perfVars, busVars, wsVars>>

\* The timeout timer of an attempt fires (the operation has not settled).
Timeout ==
  /\ \E c \in Calls : AttemptTimedOut(c)
  /\ UNCHANGED <<query, cls, perfVars, busVars, wsVars>>

\* The backoff timer of a call fires.
Backoff ==
  /\ \E c \in Calls : BackoffElapsed(c)
  /\ UNCHANGED <<query, cls, perfVars, busVars, wsVars>>

\* ---------------------------------------------------------------------
\* RealApiService.sendQuery
\* ---------------------------------------------------------------------

\* What fetch() and response.json() produce for one POST /api/query.
\*   kind    "network": fetch rejects (TypeError "Failed to fetch")
\*           "http":    fetch resolves with a Response of the given status
\*   body    "unread":  response.json() is not called (response not ok)
\*           "invalid": response.json() rejects (SyntaxError)
\*           "json":    parsed body {success, data, error}
FetchOutcome(kind, status, body, success, hasData, error) ==
  [kind |-> kind, status |-> status, body |-> body, success |-> success,
   hasData |-> hasData, error |-> error]

NetworkFailure == FetchOutcome("network", 0, "unread", FALSE, FALSE, <<>>)
HttpFailure(status) == FetchOutcome("http", status, "unread", FALSE, FALSE, <<>>)
InvalidJson == FetchOutcome("http", 200, "invalid", FALSE, FALSE, <<>>)
HttpSuccess == FetchOutcome("http", 200, "json", TRUE, TRUE, <<>>)

FetchOutcomes ==
  {NetworkFailure, InvalidJson, HttpSuccess}
  \cup { HttpFailure(s) : s \in {400, 401, 429, 500, 503} }
  \cup { FetchOutcome("http", 200, "json", TRUE, FALSE, <<>>) }
  \cup { FetchOutcome("http", 200, "json", FALSE, d, e) :
           d \in BOOLEAN, e \in {<<>>, Str("Model overloaded"), Str("rate limit hit")} }

\* Response.ok
ResponseOk(status) == status >= 200 /\ status <= 299

\* sendQuery never rejects: every failure is caught and turned into
\* {success: false, error: error.message}.
RealApiSendQuery(o) ==
  IF o.kind = "network" THEN ApiResponse(FALSE, Str("Failed to fetch"), TRUE)
  ELSE IF ~ResponseOk(o.status) THEN
    ApiResponse(FALSE, Str("HTTP error! status: ") \o NumberToString(o.status), TRUE)
  ELSE IF o.body = "invalid" THEN ApiResponse(FALSE, Str("Unexpected token"), TRUE)
  ELSE ApiResponse(o.success, o.error, o.hasData)

\* ---------------------------------------------------------------------
\* useQueryProcessing.sendQuery (the orchestrator)
\* ---------------------------------------------------------------------

\* { maxRetries: 3 } passed by sendQuery
QueryMaxRetries == 3

QueryRetryConfig ==
  RetryConfig(QueryMaxRetries, DefaultRetryDelay, DefaultBackoffMultiplier)

\* ChatMessage reduced to kind ("answer" for the success message, "error"
\* for one made by createErrorMessage), content, error and retryCount.
ChatMessage(kind, content, error, retryCount) ==
  [kind |-> kind, content |-> content, error |-> error, retryCount |-> retryCount]

NoMessage == ChatMessage("none", <<>>, <<>>, 0)

\* response.data.response, the answer text of the backend
AnswerText == Str("42")

\* createErrorMessage(error, retryCount)
createErrorMessage(error, retryCount) ==
  ChatMessage("error", error.userMessage, error.message, retryCount)

\* An ErrorContext caught as `error`: the properties parseError reads of it
\* (it has no status, response, name or data field).
ContextAsRaw(ctx) == RawObject(NoStatus, NoResponse, "", ctx.message, <<>>)

\* Mutant: the response's error field is thrown as it is (undefined when the
\* response carries none).
UnsuccessfulResponseError_Raw(response) ==
  IF response.error = <<>> THEN RawPrimitive("undefined") ELSE RawPrimitive("string")

\* throw new Error(response.error || 'Query failed')
UnsuccessfulResponseError(response) ==
  ErrorObj(OrElse(response.error, Str("Query failed")))

\* What the try block of sendQuery raises once executeWithRetry has settled:
\* raised = FALSE when it runs to `return chatMessage`.
SendQueryRaises(s) ==
  IF s.settledWith = "context" THEN [raised |-> TRUE, error |-> ContextAsRaw(s.lastError)]
  ELSE IF s.settledWith = "raw" THEN
    [raised |-> TRUE, error |-> TypeErrorObj(Str("Cannot read properties of undefined"))]
  ELSE IF ~s.value.success THEN
    [raised |-> TRUE, error |-> UnsuccessfulResponseError(s.value)]
  ELSE IF ~s.value.hasData THEN
    \* response.data is undefined: reading response.data.processingTrace throws
    [raised |-> TRUE, error |-> TypeErrorObj(Str("Cannot read properties of undefined"))]
  ELSE [raised |-> FALSE, error |-> RawPrimitive("undefined")]

\* The sendQuery invocation.
\*   pc           idle | tracing (awaiting startQueryTracing) | executing
\*                (awaiting executeWithRetry) | settled (returned a
\*                ChatMessage) | rejected (an exception left sendQuery)
\*   fetchLog     observation: the outcomes of the remote calls made
\*   errorContext the ErrorContext handleError produced in the catch block
\*   queryTrace   the queryTrace state of the hook
\*   overlapping  idle | inflight: a second sendQuery invocation of the same
\*                hook, made while this one may be in flight
IdleQuery ==
  [pc |-> "idle", isProcessing |-> FALSE, traceSent |-> FALSE, fetchLog |-> <<>>,
   result |-> NoMessage, errorContext |-> NoError, queryTrace |-> <<>>,
   overlapping |-> "idle"]

\* A QueryTrace of the hook reduced to id and status.
TraceEntry(id, status) == [id |-> id, status |-> status]

\* response.data.processingTrace?.map(...) || []: the trace of a successful
\* response, its entries numbered from 1.
ResponseTrace == <<TraceEntry("1", "completed"), TraceEntry("2", "completed")>>

\* prev.map(t => t.status === 'processing' ? {...t, status: 'error'} : t)
Demoted(trace) ==
  [i \in DOMAIN trace |->
     IF trace[i].status = "processing" THEN [trace[i] EXCEPT !.status = "error"]
     ELSE trace[i]]

\* A node_progress or query_complete event as handleTraceUpdate reads it:
\* data.data.traces and data.data.trace, either of which may be absent (<<>>).
TraceEvent(traces, trace) == [traces |-> traces, trace |-> trace]

\* The events the backend delivers for a trace of two nodes.
TraceEvents ==
  { TraceEvent(<<TraceEntry("1", "processing")>>, <<>>),
    TraceEvent(<<TraceEntry("1", "completed"), TraceEntry("2", "processing")>>, <<>>),
    TraceEvent(<<>>, <<TraceEntry("1", "completed")>>),
    TraceEvent(<<>>, <<TraceEntry("2", "processing")>>),
    TraceEvent(ResponseTrace, <<>>),
    TraceEvent(<<>>, <<>>) }

\* handleTraceUpdate(data) applied to the trace prev.  An empty traces array
\* is truthy, so it is only the absent one that falls through to data.trace.
handleTraceUpdate(prev, data) ==
  IF data.traces # <<>> THEN data.traces
  ELSE IF data.trace # <<>> THEN
    LET newTrace == data.trace[1]
    IN IF \E i \in DOMAIN prev : prev[i].id = newTrace.id
       THEN [i \in DOMAIN prev |-> IF prev[i].id = newTrace.id THEN newTrace ELSE prev[i]]
       ELSE Append(prev, newTrace)
  ELSE prev

\* sendQuery up to `await startQueryTracing(...)`.  startQueryTracing sends
\* start_query_trace when the socket is connected and returns otherwise.
SendQuery ==
  /\ query.pc \in {"idle", "settled", "rejected"}
  /\ call["query"].pc \in {"idle", "resolved", "rejected"}
  /\ \E isConnected \in BOOLEAN :
       query' = [IdleQuery EXCEPT !.pc = "tracing", !.isProcessing = TRUE,
                                  !.traceSent = isConnected,
                                  !.overlapping = query.overlapping]
  /\ UNCHANGED <<retryAttempts, call, cls, perfVars, busVars, wsVars>>

\* startQueryTracing has resolved: call executeWithRetry, which invokes
\* api.sendQuery (the first remote call).
SendQueryExecute ==
  /\ query.pc = "tracing"
  /\ ExecuteWithRetryBegin("query", QueryOpId, QueryRetryConfig)
  /\ query' = [query EXCEPT !.pc = "executing"]
  /\ UNCHANGED <<cls, perfVars, busVars, wsVars>>

\* The remote call of the attempt in flight settles; api.sendQuery resolves.
FetchSettles ==
  /\ query.pc = "executing"
  /\ \E o \in FetchOutcomes :
       /\ AttemptResolved("query", RealApiSendQuery(o))
       /\ query' = [query EXCEPT !.fetchLog = Append(@, o)]
  /\ UNCHANGED <<cls, perfVars, busVars, wsVars>>

\* executeWithRetry has settled: the rest of the try block, the catch block
\* and the finally block of sendQuery.
SendQuerySettle ==
  LET s == call["query"]
      raises == SendQueryRaises(s)
      handled == parseError(raises.error)
  IN /\ query.pc = "executing"
     /\ s.pc \in {"resolved", "rejected"}
     /\ IF ~raises.raised THEN
          query' = [query EXCEPT !.pc = "settled", !.isProcessing = FALSE,
                                 !.queryTrace = ResponseTrace,
                                 !.result = ChatMessage("answer", AnswerText, <<>>, 0)]
        ELSE IF handled.thrown THEN
          \* handleError threw inside the catch block
          query' = [query EXCEPT !.pc = "rejected", !.isProcessing = FALSE]
        ELSE
          query' = [query EXCEPT !.pc = "settled", !.isProcessing = FALSE,
                                 !.errorContext = handled.ctx,
                                 !.queryTrace = Demoted(query.queryTrace),
                                 !.result = createErrorMessage(handled.ctx, 0)]
     /\ UNCHANGED <<retryAttempts, call, cls, perfVars, busVars, wsVars>>

\* The socket delivers a node_progress or query_complete event of the trace
\* the hook asked for: handleTraceUpdate runs, whatever sendQuery is doing.
TraceUpdate ==
  /\ query.traceSent
  /\ \E data \in TraceEvents :
       query' = [query EXCEPT !.queryTrace = handleTraceUpdate(@, data)]
  /\ UNCHANGED <<retryAttempts, call, cls, perfVars, busVars, wsVars>>

\* A second sendQuery invocation of the hook (handleQuerySelect calls
\* handleSendMessage whatever isProcessing is), up to its first await.
OverlappingSendQuery ==
  /\ query.overlapping = "idle"
  /\ query' = [query EXCEPT !.overlapping = "inflight", !.isProcessing = TRUE,
                            !.queryTrace = <<>>]
  /\ UNCHANGED <<retryAttempts, call, cls, perfVars, busVars, wsVars>>

\* The second invocation settles: the trace of the response, or the catch
\* block; then the finally block.
OverlappingSettles ==
  /\ query.overlapping = "inflight"
  /\ \E succeeded \in BOOLEAN :
       query' = [query EXCEPT !.overlapping = "idle", !.isProcessing = FALSE,
                              !.queryTrace = IF succeeded THEN ResponseTrace
                                             ELSE Demoted(@)]
  /\ UNCHANGED <<retryAttempts, call, cls, perfVars, busVars, wsVars>>

\* ---------------------------------------------------------------------
\* Classification requests
\* ---------------------------------------------------------------------

Messages ==
  {<<>>, Str("boom"), Str("Failed to fetch"), Str("Request timeout"), Str("rate limit hit"),
   Str("validation"), Str("Operation timed out")}

\* Every raw failure the classifier is applied to.
RawFailures ==
  { RawPrimitive(k) : k \in {"null", "undefined", "string"} }
  \cup { RawObject(st, rs, n, m, d) :
           st \in {NoStatus, 0, 400, 401, 403, 404, 429, 500, 502, 503, 504},
           rs \in {NoResponse, NoStatus, 401, 503},
           n \in {"", "Error", "NetworkError", "TimeoutError"},
           m \in Messages,
           d \in {<<>>, Str("Model overloaded")} }

IdleClassify == [pc |-> "idle", input |-> RawPrimitive("undefined"), out |-> Thrown]

\* errorHandler.parseError(input)
Classify ==
  /\ cls.pc = "ready"
  /\ cls' = [cls EXCEPT !.pc = "done", !.out = parseError(cls.input)]
  /\ UNCHANGED <<retryAttempts, call, query, perfVars, busVars, wsVars>>

\* ---------------------------------------------------------------------
\* PerformanceOptimizer: query optimisation and the result cache
\* ---------------------------------------------------------------------

\* .slice(0, 32) of generateCacheKey
CacheKeyLength == 32

\* generateCacheKey(query: queryText)
generateCacheKey(queryText) ==
  LET encoded == Btoa(Trim(ToLowerCase(Chars(queryText))))
      stripped == SelectSeq(encoded, IsAlphanumeric)
  IN Join(SubSeq(stripped, 1, IF Len(stripped) < CacheKeyLength THEN Len(stripped)
                                ELSE CacheKeyLength))

stopWords ==
  {"the", "a", "an", "and", "or", "but", "in", "on", "at", "to", "for", "of", "with", "by"}

\* optimizeQueryText(query: queryText)
optimizeQueryText(queryText) ==
  LET words == Split(ToLowerCase(Chars(queryText)))
      Kept(word) == Join(word) \notin stopWords /\ Len(word) > 2
  IN Join(Trim(JoinWords(SelectSeq(words, Kept))))

\* optimizeQuery(query, history) on the cache map c; estimatedTime, which no
\* caller reads, is left out.
optimizeQuery(c, queryText) ==
  [optimizedQuery |-> optimizeQueryText(queryText),
   cacheKey |-> generateCacheKey(queryText),
   shouldUseCache |-> generateCacheKey(queryText) \in DOMAIN c]

\* ttl: number = 300000
DefaultTtl == 300000

CacheEntry(data, timestamp, ttl, hits) ==
  [data |-> data, timestamp |-> timestamp, ttl |-> ttl, hits |-> hits]

\* The null getCache returns.
NoData == <<>>

\* Mutant: entries never expire.
Expired_Never(entry, t) == FALSE

\* Date.now() - entry.timestamp.getTime() > entry.ttl, at time t
Expired(entry, t) == t - entry.timestamp > entry.ttl

\* cleanExpiredCache() at time t
cleanExpiredCache(c, t) ==
  [k \in {j \in DOMAIN c : ~Expired(c[j], t)} |-> c[k]]

\* Mutant: a hit counts twice.
Hit_CountsTwice(entry) == [entry EXCEPT !.hits = @ + 2]

\* entry.hits++
Hit(entry) == [entry EXCEPT !.hits = @ + 1]

\* The entry setCache stores under key at time t.
StoredEntry(c, key, data, t, ttl) == CacheEntry(data, t, ttl, 0)

\* The sum of entry.hits over the cache.
RECURSIVE SumHits(_, _)
SumHits(c, keys) ==
  IF keys = {} THEN 0
  ELSE LET k == CHOOSE j \in keys : TRUE IN c[k].hits + SumHits(c, keys \ {k})

\* updateCacheHitRate(): the value stored in metrics.cacheHitRate (the
\* quotient rounded down).
updateCacheHitRate(c, history) ==
  LET totalQueries == Cardinality({i \in DOMAIN history : history[i].metric = "query"})
      cacheHits == SumHits(c, DOMAIN c)
  IN IF totalQueries > 0 THEN (cacheHits * 100) \div totalQueries ELSE 0

\* ---------------------------------------------------------------------
\* PerformanceOptimizer: the performance history
\* ---------------------------------------------------------------------

\* performanceHistory.length > 1000
HistoryLimit == 1000

\* performanceHistory.slice(-500)
HistoryKept == 500

Sample(timestamp, metric, value) ==
  [timestamp |-> timestamp, metric |-> metric, value |-> value]

\* recordPerformanceMetric(metric, value) at time t: the history and the
\* metrics it leaves.
recordPerformanceMetric(state, t, metric, value) ==
  [history |-> Append(state.history, Sample(t, metric, value)),
   metrics |-> IF metric = "queryProcessingTime"
               THEN [state.metrics EXCEPT !.queryProcessingTime = value]
               ELSE IF metric = "documentIndexingTime"
               THEN [state.metrics EXCEPT !.documentIndexingTime = value]
               ELSE state.metrics]

\* The history part of optimizeMemoryUsage().
LimitHistory(history) ==
  IF Len(history) > HistoryLimit
  THEN SubSeq(history, Len(history) - HistoryKept + 1, Len(history))
  ELSE history

InitialMetrics ==
  [queryProcessingTime |-> 0, documentIndexingTime |-> 0, cacheHitRate |-> 0]

\* ---------------------------------------------------------------------
\* Clients of the PerformanceOptimizer
\* ---------------------------------------------------------------------

\* The query texts submitted.
QueryTexts ==
  {Str("moving average"), Str("Moving Average"), Str(" moving average "),
   Str("the moving average"), Str("calculate 50-day moving average"),
   Str("calculate 50-day moving average of AAPL")}

\* The keys clients store results under: optimization.cacheKey of a query.
CacheKeys ==
  {generateCacheKey(t) : t \in {Str("moving average"), Str("calculate 50-day moving average")}}

CachedValues == {Str("answer A"), Str("answer B")}

\* The ttl arguments of setCache: 100 ms and the default.
Ttls == {100, DefaultTtl}

\* The instants at which the clock is read after construction (instant 0).
Instants == {100, 150, DefaultTtl + 150}

\* getCache is not called on an entry that has MaxHits hits.
MaxHits == 2

\* handleSendMessage is called MaxQueries times.
MaxQueries == 2

\* recordPerformanceMetric is called until MaxSamples samples were recorded.
MaxSamples == 1004

\* The last call on the cache: its operation (set | get | sweep), its key and
\* data arguments, the instant of the call, the cache it found and the value
\* it returned.
Lookup(op, key, data, at, before, returned) ==
  [op |-> op, key |-> key, data |-> data, at |-> at, before |-> before,
   returned |-> returned]

IdleLookup == Lookup("none", "", NoData, 0, EmptyMap, NoData)

\* Time passes.
Tick ==
  /\ \E t \in Instants : t > now /\ now' = t
  /\ UNCHANGED <<cache, lookup, performanceHistory, metrics, dash, queryVars, busVars, wsVars>>

\* setCache(key, data, ttl)
SetCache ==
  /\ \E key \in CacheKeys, data \in CachedValues, ttl \in Ttls :
       /\ cache' = cleanExpiredCache(
                     MapSet(cache, key, StoredEntry(cache, key, data, now, ttl)), now)
       /\ lookup' = Lookup("set", key, data, now, cache, NoData)
  /\ UNCHANGED <<now, performanceHistory, metrics, dash, queryVars, busVars, wsVars>>

\* getCache(key)
GetCache ==
  /\ \E key \in CacheKeys :
       IF key \notin DOMAIN cache THEN
         /\ lookup' = Lookup("get", key, NoData, now, cache, NoData)
         /\ UNCHANGED <<cache, metrics>>
       ELSE IF Expired(cache[key], now) THEN
         /\ cache' = MapDelete(cache, key)
         /\ lookup' = Lookup("get", key, NoData, now, cache, NoData)
         /\ UNCHANGED metrics
       ELSE
         /\ cache[key].hits < MaxHits
         /\ cache' = [cache EXCEPT ![key] = Hit(@)]
         /\ metrics' = [metrics EXCEPT
                          !.cacheHitRate = updateCacheHitRate(cache', performanceHistory)]
         /\ lookup' = Lookup("get", key, NoData, now, cache, cache[key].data)
  /\ UNCHANGED <<now, performanceHistory, dash, queryVars, busVars, wsVars>>

\* optimizeMemoryUsage()
OptimizeMemoryUsage ==
  /\ cache' = cleanExpiredCache(cache, now)
  /\ performanceHistory' = LimitHistory(performanceHistory)
  /\ lookup' = Lookup("sweep", "", NoData, now, cache, NoData)
  /\ UNCHANGED <<now, metrics, dash, queryVars, busVars, wsVars>>

\* The two recordMetric calls made for an answered query, with the processing
\* time measured.
RecordedFor(history, m, t, processingTime) ==
  recordPerformanceMetric(
    recordPerformanceMetric([history |-> history, metrics |-> m],
                            t, "responseTime", processingTime),
    t, "queryProcessingTime", processingTime)

\* recordMetric('responseTime', v); recordMetric('queryProcessingTime', v)
RecordMetrics ==
  /\ Len(performanceHistory) < MaxSamples
  /\ \E processingTime \in {850} :
       LET after == RecordedFor(performanceHistory, metrics, now, processingTime)
       IN /\ performanceHistory' = after.history
          /\ metrics' = after.metrics
  /\ UNCHANGED <<cache, now, lookup, dash, queryVars, busVars, wsVars>>

\* ---------------------------------------------------------------------
\* DashboardLayout.handleSendMessage
\* ---------------------------------------------------------------------

NoOptimization == [optimizedQuery |-> "", cacheKey |-> "", shouldUseCache |-> FALSE]

\* The handleSendMessage invocation.
\*   pc          idle | tracing (awaiting startQueryTracing) | executing
\*               (awaiting executeWithRetry) | done
\*   count       the invocations so far
\*   cached      observation: the data of the unexpired cache entry under
\*               optimization.cacheKey when sendQuery was invoked, if any
\*   remoteCalls observation: the sendQuery invocations of this submission
\*   sent        observation: the query text given to sendQuery
\*   previous    observation: content and cache key of the submission before
IdleDash ==
  [pc |-> "idle", count |-> 0, content |-> <<>>, startTime |-> 0,
   optimization |-> NoOptimization, cached |-> NoData, remoteCalls |-> 0,
   sent |-> "", result |-> NoMessage,
   previous |-> [content |-> <<>>, cacheKey |-> ""]]

\* The data of the unexpired entry under key at time t, if there is one.
Unexpired(c, key, t) ==
  IF key \in DOMAIN c /\ ~Expired(c[key], t) THEN c[key].data ELSE NoData

\* executeWithRetry(() => sendQuery(optimization.optimizedQuery, persona), ...)
\* up to its first await: the operation is invoked, which makes the remote
\* query call.
InvokeSendQuery(d, c, t) ==
  [d EXCEPT !.pc = "executing", !.remoteCalls = @ + 1,
            !.sent = d.optimization.optimizedQuery,
            !.cached = Unexpired(c, d.optimization.cacheKey, t)]

\* handleSendMessage(content) up to `await startQueryTracing(...)`.
Submitted(d, c, t, content) ==
  [IdleDash EXCEPT !.pc = "tracing", !.count = d.count + 1,
                   !.content = content, !.startTime = t,
                   !.optimization = optimizeQuery(c, content),
                   !.previous = [content |-> d.content,
                                 cacheKey |-> d.optimization.cacheKey]]

\* handleSendMessage(content) up to its first await.
HandleSendMessage ==
  /\ dash.pc \in {"idle", "done"}
  /\ dash.count < MaxQueries
  /\ \E content \in QueryTexts, queryType \in BOOLEAN :
       LET started == Submitted(dash, cache, now, content)
       IN dash' = IF queryType THEN started ELSE InvokeSendQuery(started, cache, now)
  /\ UNCHANGED <<cache, now, lookup, performanceHistory, metrics, queryVars, busVars, wsVars>>

\* startQueryTracing has resolved.
DashTracingResolved ==
  /\ dash.pc = "tracing"
  /\ dash' = InvokeSendQuery(dash, cache, now)
  /\ UNCHANGED <<cache, now, lookup, performanceHistory, metrics, queryVars, busVars, wsVars>>

\* The messages sendQuery resolves with: the answer, or the error message of
\* its catch block.
SendQueryResults ==
  {ChatMessage("answer", AnswerText, <<>>, 0),
   createErrorMessage(parseError(ErrorObj(Str("Query failed"))).ctx, 0)}

\* The error message of the catch block of handleSendMessage.
DashErrorMessage(ctx) ==
  ChatMessage("error", ctx.userMessage, ctx.message, IF ctx.retryable THEN 1 ELSE 0)

\* executeWithRetry resolves with the message of sendQuery: the metrics are
\* recorded and the message is shown.
DashAnswered ==
  /\ dash.pc = "executing"
  /\ \E aiResponse \in SendQueryResults :
       LET after == RecordedFor(performanceHistory, metrics, now, now - dash.startTime)
       IN /\ dash' = [dash EXCEPT !.pc = "done", !.result = aiResponse]
          /\ performanceHistory' = after.history
          /\ metrics' = after.metrics
  /\ UNCHANGED <<cache, now, lookup, queryVars, busVars, wsVars>>

\* The timeout of executeWithRetry fires first: 'Operation timed out' is
\* classified non-retryable, executeWithRetry rejects and the catch block
\* shows an error message.
DashTimedOut ==
  /\ dash.pc = "executing"
  /\ dash' = [dash EXCEPT !.pc = "done",
                          !.result = DashErrorMessage(
                                       parseError(ContextAsRaw(parseError(TimeoutFailure).ctx)).ctx)]
  /\ UNCHANGED <<cache, now, lookup, performanceHistory, metrics, queryVars, busVars, wsVars>>

\* ---------------------------------------------------------------------
\* WebSocketSimulation: the progress event bus
\* ---------------------------------------------------------------------

NODE_SEQUENCE ==
  <<"Router Node", "Persona Selector", "Document Node", "Database Node",
    "Math Node", "Suggestion Node", "Answer Formatter">>

\* The callbacks registered: "ui" returns, "faulty" throws.
Handlers == {"ui", "faulty"}

Throws(callback) == callback = "faulty"

\* The events callbacks are registered for.
ListenedEvents == {"node_progress"}

\* At most MaxListeners callbacks are registered for an event.
MaxListeners == 2

\* The callers of startQueryTracing: two handleSendMessage invocations, which
\* may overlap.  A caller calls again once its call has settled.
Clients == {"first", "second"}

\* this.eventListeners.get(event) || []
ListenersOf(listeners, event) ==
  IF event \in DOMAIN listeners THEN listeners[event] ELSE <<>>

\* An emit call: the event, the callbacks registered for it, those that were
\* called, and whether an exception left emit.
Emit(event, registered, ran, threw) ==
  [event |-> event, registered |-> registered, ran |-> ran, threw |-> threw]

NoEmit == Emit("none", <<>>, <<>>, FALSE)

\* emit(event, data): listeners.forEach(callback => callback(data)).  forEach
\* ends at the first callback that throws, and the exception leaves emit.
emit(listeners, event) ==
  LET registered == ListenersOf(listeners, event)
      throwing == {i \in 1..Len(registered) : Throws(registered[i])}
      first == IF throwing = {} THEN 0
               ELSE CHOOSE i \in throwing : \A j \in throwing : i <= j
  IN Emit(event, registered,
          IF first = 0 THEN registered ELSE SubSeq(registered, 1, first),
          first # 0)

\* Mutant: the nodes are taken from the end of the sequence.
StepAt_Reversed(i) == NODE_SEQUENCE[Len(NODE_SEQUENCE) + 1 - i]

\* NODE_SEQUENCE[i], counting from 1
StepAt(i) == NODE_SEQUENCE[i]

\* A QueryTrace reduced to step and status.
QueryTrace(step, status) == [step |-> step, status |-> status]

\* A node_progress event as its listeners see it: step, status and the
\* traces array it carries.
NodeProgress(step, status, traces) ==
  [event |-> "node_progress", step |-> step, status |-> status, traces |-> traces]

\* A startQueryTracing invocation.
\*   pc      idle (not called yet) | skipped (returned at the isSimulating guard) | delay (awaiting
\*           the delay of node i) | done | threw (an exception left it)
\*   i       the loop index, counting from 1
\*   traces  the traces array
\*   events  observation: the node_progress events it emitted
\*   errorSeen  observation: simulateError emitted an error event while this
\*           invocation was awaiting a delay
\*   progressAfterError  observation: it emitted a node_progress event after
\*           that
Run(pc, i, traces, events) ==
  [pc |-> pc, i |-> i, traces |-> traces, events |-> events,
   errorSeen |-> FALSE, progressAfterError |-> FALSE]

IdleRun == Run("idle", 0, <<>>, <<>>)

\* traces.push({step, status: 'processing'}) and the emit of the node_progress
\* event for node i: the invocation awaits the delay, or the exception of a
\* callback leaves it.
BeginNode(run, listeners, i) ==
  LET traces == Append(run.traces, QueryTrace(StepAt(i), "processing"))
      sent == emit(listeners, "node_progress")
  IN [run |-> [run EXCEPT !.pc = IF sent.threw THEN "threw" ELSE "delay",
                          !.i = i,
                          !.traces = traces,
                          !.events = Append(@, NodeProgress(StepAt(i), "processing", traces)),
                          !.progressAfterError = run.errorSeen],
      emitted |-> sent]

\* startQueryTracing(query, persona, queryType) called by c, up to its first
\* await
StartQueryTracingBy(c) ==
  /\ runs[c].pc # "delay"
  /\ IF isSimulating THEN
       /\ runs' = [runs EXCEPT ![c] = Run("skipped", 0, <<>>, <<>>)]
       /\ UNCHANGED <<isSimulating, emitted>>
     ELSE
       LET started == emit(eventListeners, "query_start")
           first == BeginNode(Run("delay", 0, <<>>, <<>>), eventListeners, 1)
       IN /\ isSimulating' = TRUE
          /\ IF started.threw THEN
               /\ runs' = [runs EXCEPT ![c] = Run("threw", 0, <<>>, <<>>)]
               /\ emitted' = started
             ELSE
               /\ runs' = [runs EXCEPT ![c] = first.run]
               /\ emitted' = first.emitted

StartQueryTracing ==
  /\ \E c \in Clients : StartQueryTracingBy(c)
  /\ UNCHANGED <<eventListeners, queryVars, perfVars, wsVars>>

\* The delay of node i of an invocation has elapsed: the node is completed,
\* then the next node is begun or, after the last node, query_complete is
\* emitted and isSimulating is cleared.
DelayElapsed ==
  /\ \E r \in DOMAIN runs :
       LET run == runs[r]
           traces == [run.traces EXCEPT ![run.i].status = "completed"]
           completed == emit(eventListeners, "node_progress")
           afterCompleted ==
             [run EXCEPT !.traces = traces,
                         !.events = Append(@, NodeProgress(StepAt(run.i), "completed", traces)),
                         !.progressAfterError = run.errorSeen]
       IN /\ run.pc = "delay"
          /\ IF completed.threw THEN
               /\ runs' = [runs EXCEPT ![r] = [afterCompleted EXCEPT !.pc = "threw"]]
               /\ emitted' = completed
               /\ UNCHANGED isSimulating
             ELSE IF run.i < Len(NODE_SEQUENCE) THEN
               LET next == BeginNode(afterCompleted, eventListeners, run.i + 1)
               IN /\ runs' = [runs EXCEPT ![r] = next.run]
                  /\ emitted' = next.emitted
                  /\ UNCHANGED isSimulating
             ELSE
               LET complete == emit(eventListeners, "query_complete")
               IN /\ runs' = [runs EXCEPT ![r] =
                                [afterCompleted EXCEPT
                                   !.pc = IF complete.threw THEN "threw" ELSE "done"]]
                  /\ emitted' = complete
                  /\ isSimulating' = IF complete.threw THEN isSimulating ELSE FALSE
  /\ UNCHANGED <<eventListeners, queryVars, perfVars, wsVars>>

\* simulateError(step, error)
SimulateError ==
  /\ emitted' = emit(eventListeners, "error")
  /\ runs' = [r \in DOMAIN runs |->
                IF runs[r].pc = "delay" THEN [runs[r] EXCEPT !.errorSeen = TRUE]
                ELSE runs[r]]
  /\ UNCHANGED <<isSimulating, eventListeners, queryVars, perfVars, wsVars>>

\* disconnect()
Disconnect ==
  /\ isSimulating' = FALSE
  /\ eventListeners' = EmptyMap
  /\ UNCHANGED <<runs, emitted, queryVars, perfVars, wsVars>>

\* on(event, callback)
On ==
  /\ \E event \in ListenedEvents, callback \in Handlers :
       /\ Len(ListenersOf(eventListeners, event)) < MaxListeners
       /\ eventListeners' =
            MapSet(eventListeners, event,
                   Append(ListenersOf(eventListeners, event), callback))
  /\ UNCHANGED <<isSimulating, runs, emitted, queryVars, perfVars, wsVars>>

\* off(event, callback): the first occurrence of callback is removed.
Off ==
  /\ \E event \in ListenedEvents, callback \in Handlers :
       LET listeners == ListenersOf(eventListeners, event)
           found == {i \in 1..Len(listeners) : listeners[i] = callback}
           index == CHOOSE i \in found : \A j \in found : i <= j
       IN /\ found # {}
          /\ eventListeners' =
               [eventListeners EXCEPT
                  ![event] = SubSeq(listeners, 1, index - 1)
                             \o SubSeq(listeners, index + 1, Len(listeners))]
  /\ UNCHANGED <<isSimulating, runs, emitted, queryVars, perfVars, wsVars>>

\* ---------------------------------------------------------------------
\* DashboardLayout.handleSendMessage driving the simulation
\* ---------------------------------------------------------------------

\* What a throwing callback throws.
HandlerException == ErrorObj(Str("boom"))

\* handleSendMessage(content) with a query type set, up to its first await:
\* `await startQueryTracing(content, persona, queryType)`, the call running
\* up to its own first await.
TracedSendMessage ==
  /\ dash.pc \in {"idle", "done"}
  /\ dash.count < MaxQueries
  /\ \E content \in QueryTexts : dash' = Submitted(dash, cache, now, content)
  /\ StartQueryTracingBy("first")
  /\ UNCHANGED <<cache, now, lookup, performanceHistory, metrics, eventListeners,
                 queryVars, wsVars>>

\* The promise of startQueryTracing has resolved (the node sequence is over,
\* or the call returned at the guard): executeWithRetry is called.
TracedResolved ==
  /\ dash.pc = "tracing"
  /\ runs["first"].pc \in {"done", "skipped"}
  /\ dash' = InvokeSendQuery(dash, cache, now)
  /\ UNCHANGED <<cache, now, lookup, performanceHistory, metrics, queryVars, busVars, wsVars>>

\* The promise of startQueryTracing has rejected with the exception of a
\* callback: the catch block of handleSendMessage.
TracedThrew ==
  /\ dash.pc = "tracing"
  /\ runs["first"].pc = "threw"
  /\ dash' = [dash EXCEPT !.pc = "done",
                          !.result = DashErrorMessage(parseError(HandlerException).ctx)]
  /\ UNCHANGED <<cache, now, lookup, performanceHistory, metrics, queryVars, busVars, wsVars>>

\* ---------------------------------------------------------------------
\* WebSocketClient: the connection to the backend
\* ---------------------------------------------------------------------

\* private maxReconnectAttempts = 5
maxReconnectAttempts == 5

\* private reconnectDelay = 1000
reconnectDelay == 1000

\* The client and the one socket or reconnect timer it has at a time (a timer
\* is set only when a socket has closed or could not be created, and a
\* socket is created only by the constructor or by a timer).
\*   socket   none | connecting | open | closing (close() was called on it,
\*            its close event is still to come)
\*   ws       this.ws is not null
\*   timer    the delay of the pending reconnect timer, 0 when none is set
\*   closeCalled, scheduledAfterClose, connectedAfterClose
\*            observations: close() has been called; since then a reconnect
\*            timer was set; since then connect() created a socket
\*   lastEvent  observation: the last event emitted to the listeners
\*   tracing  observation: what the last startQueryTracing did
Client(socket, ws) ==
  [socket |-> socket, ws |-> ws, isConnected |-> FALSE, reconnectAttempts |-> 0,
   timer |-> 0, closeCalled |-> FALSE, scheduledAfterClose |-> FALSE,
   connectedAfterClose |-> FALSE, lastEvent |-> "none", tracing |-> "none"]

\* handleReconnect()
handleReconnect(c) ==
  IF c.reconnectAttempts < maxReconnectAttempts THEN
    [c EXCEPT !.reconnectAttempts = c.reconnectAttempts + 1,
              !.timer = reconnectDelay * Pow(2, c.reconnectAttempts),
              !.scheduledAfterClose = c.scheduledAfterClose \/ c.closeCalled]
  ELSE [c EXCEPT !.lastEvent = "max_reconnect_attempts"]

\* connect(): the socket is created, or new WebSocket throws and the catch
\* block calls handleReconnect.
connect(c, threw) ==
  IF threw THEN handleReconnect(c)
  ELSE [c EXCEPT !.socket = "connecting", !.ws = TRUE,
                 !.connectedAfterClose = c.connectedAfterClose \/ c.closeCalled]

\* ws.onopen
SocketOpens ==
  /\ client.socket = "connecting"
  /\ client' = [client EXCEPT !.socket = "open", !.isConnected = TRUE,
                              !.reconnectAttempts = 0, !.lastEvent = "connected"]
  /\ UNCHANGED <<queryVars, perfVars, busVars>>

\* ws.onclose: the connection failed, the backend closed it, or the close
\* close() asked for has completed.
SocketCloses ==
  /\ client.socket \in {"connecting", "open", "closing"}
  /\ client' = handleReconnect([client EXCEPT !.socket = "none", !.isConnected = FALSE,
                                              !.lastEvent = "disconnected"])
  /\ UNCHANGED <<queryVars, perfVars, busVars>>

\* The reconnect timer fires: connect().
ReconnectTimerFires ==
  /\ client.timer > 0
  /\ \E threw \in BOOLEAN : client' = connect([client EXCEPT !.timer = 0], threw)
  /\ UNCHANGED <<queryVars, perfVars, busVars>>

\* close(): ws.close() starts the closing handshake of the socket, whose
\* close event is delivered later.
Close ==
  /\ client' = [client EXCEPT
                  !.socket = IF client.ws /\ @ \in {"connecting", "open"} THEN "closing" ELSE @,
                  !.ws = FALSE, !.isConnected = FALSE, !.closeCalled = TRUE]
  /\ UNCHANGED <<queryVars, perfVars, busVars>>

\* startQueryTracing(message, persona, queryType) of the client
ClientStartQueryTracing ==
  /\ client' = [client EXCEPT !.tracing = IF ~client.isConnected THEN "not connected"
                                          ELSE IF client.ws THEN "sent" ELSE "dropped"]
  /\ UNCHANGED <<queryVars, perfVars, busVars>>

\* ---------------------------------------------------------------------
\* Specifications
\* ---------------------------------------------------------------------

\* The performance optimizer after construction, the dashboard idle.
InitPerf ==
  /\ cache = EmptyMap
  /\ now = 0
  /\ lookup = IdleLookup
  /\ performanceHistory = <<>>
  /\ metrics = InitialMetrics
  /\ dash = IdleDash

\* The client after construction: the constructor calls connect().
InitClient == client = Client("connecting", TRUE)

\* The simulation after construction.
InitBus ==
  /\ isSimulating = FALSE
  /\ eventListeners = EmptyMap
  /\ runs = [c \in Clients |-> IdleRun]
  /\ emitted = NoEmit

Init ==
  /\ retryAttempts = EmptyMap
  /\ call = [c \in Calls |-> IdleCall]
  /\ query = IdleQuery
  /\ cls = IdleClassify
  /\ InitPerf
  /\ InitBus
  /\ InitClient

\* The orchestrator and an arbitrary caller sharing the ErrorHandler.
Next ==
  \/ CallerStart
  \/ CallerOpResolves
  \/ CallerOpRejects
  \/ Timeout
  \/ Backoff
  \/ SendQuery
  \/ SendQueryExecute
  \/ FetchSettles
  \/ SendQuerySettle

Spec == Init /\ [][Next]_vars

\* The retry executor alone, driven by the arbitrary caller.
NextRetry ==
  \/ CallerStart
  \/ CallerOpResolves
  \/ CallerOpRejects
  \/ Timeout
  \/ Backoff

SpecRetry == Init /\ [][NextRetry]_vars

\* The retry executor with its timers firing: a timeout timer that stays
\* pending fires, and so does a backoff timer.  Nothing is assumed of the
\* operation, whose promise may never settle.
SpecRetryFair ==
  Init /\ [][NextRetry]_vars /\ WF_vars(Timeout) /\ WF_vars(Backoff)

\* The dashboard submitting queries with a query type set, its tracing
\* driven by the simulation.
NextTraced ==
  \/ TracedSendMessage
  \/ DelayElapsed
  \/ TracedResolved
  \/ TracedThrew
  \/ DashAnswered
  \/ DashTimedOut
  \/ On

SpecTraced == Init /\ [][NextTraced]_vars

\* The WebSocket client: its socket, its reconnect timer and its callers.
NextClient ==
  \/ SocketOpens
  \/ SocketCloses
  \/ ReconnectTimerFires
  \/ Close
  \/ ClientStartQueryTracing

SpecClient == Init /\ [][NextClient]_vars

\* The sendQuery hook alone: its invocation, a second invocation overlapping
\* it, and the trace events the socket delivers.  api.sendQuery never
\* rejects, so the only failure of an attempt is its timeout.
NextHook ==
  \/ SendQuery
  \/ SendQueryExecute
  \/ FetchSettles
  \/ SendQuerySettle
  \/ Timeout
  \/ TraceUpdate
  \/ OverlappingSendQuery
  \/ OverlappingSettles

SpecHook == Init /\ [][NextHook]_vars

\* The classifier alone, applied once to each raw failure.
InitClassify ==
  /\ retryAttempts = EmptyMap
  /\ call = [c \in Calls |-> IdleCall]
  /\ query = IdleQuery
  /\ cls \in { [pc |-> "ready", input |-> f, out |-> Thrown] : f \in RawFailures }
  /\ InitPerf
  /\ InitBus
  /\ InitClient

NextClassify == Classify

SpecClassify == InitClassify /\ [][NextClassify]_vars

\* The result cache, driven by arbitrary clients as time passes.
NextCache ==
  \/ SetCache
  \/ GetCache
  \/ OptimizeMemoryUsage
  \/ Tick

SpecCache == Init /\ [][NextCache]_vars

\* The caches the dashboard starts from: empty, or holding the one entry a
\* client stored with setCache at instant 0.
PopulatedCaches ==
  {EmptyMap} \cup
  { MapSet(EmptyMap, key, StoredEntry(EmptyMap, key, Str("answer A"), 0, ttl)) :
      key \in CacheKeys, ttl \in Ttls }

InitDashboard ==
  /\ retryAttempts = EmptyMap
  /\ call = [c \in Calls |-> IdleCall]
  /\ query = IdleQuery
  /\ cls = IdleClassify
  /\ cache \in PopulatedCaches
  /\ now = 0
  /\ lookup = IdleLookup
  /\ performanceHistory = <<>>
  /\ metrics = InitialMetrics
  /\ dash = IdleDash
  /\ InitBus
  /\ InitClient

\* The dashboard submitting queries as time passes.
NextDashboard ==
  \/ HandleSendMessage
  \/ DashTracingResolved
  \/ DashAnswered
  \/ DashTimedOut
  \/ Tick

SpecDashboard == InitDashboard /\ [][NextDashboard]_vars

\* The performance history, with the metrics of answered queries recorded.
NextMetrics ==
  \/ RecordMetrics
  \/ OptimizeMemoryUsage

SpecMetrics == Init /\ [][NextMetrics]_vars

\* The progress event bus, driven by arbitrary clients.
NextBus ==
  \/ StartQueryTracing
  \/ DelayElapsed
  \/ SimulateError
  \/ Disconnect
  \/ On
  \/ Off

SpecBus == Init /\ [][NextBus]_vars



\* ---------------------------------------------------------------------
\* Properties
\* ---------------------------------------------------------------------

\* The delays of the first k backoff sleeps under cfg.
ExpectedSleeps(cfg, k) ==
  [i \in 1..k |-> cfg.retryDelay * Pow(cfg.backoffMultiplier, i - 1)]

\* Every attempt of the call so far has failed with a failure classified
\* retryable (none resolved, none made parseError throw).
AlwaysFailedRetryable(s) ==
  /\ s.pc \in {"waiting", "backoff", "rejected"}
  /\ s.settledWith \in {"", "context"}
  /\ s.allRetryable

\* C1: executeWithRetry on an operation that always fails with a retryable
\* error and maxRetries = N invokes the operation exactly N+1 times, sleeps
\* retryDelay * backoffMultiplier^k after failed attempt k for k = 0..N-1
\* only (no sleep after the last attempt) and then rejects; with the
\* defaults the sleeps are 1000, 2000, 4000.
C1_ExactAttemptsAndBackoff ==
  LET s == call["caller"]
      N == s.cfg.maxRetries
  IN AlwaysFailedRetryable(s) =>
       /\ s.invocations <= N + 1
       /\ s.pc = "waiting" => s.slept = ExpectedSleeps(s.cfg, s.invocations - 1)
       /\ s.pc = "backoff" =>
            /\ s.invocations <= N
            /\ s.slept = ExpectedSleeps(s.cfg, s.invocations)
       /\ s.pc = "rejected" =>
            /\ s.invocations = N + 1
            /\ s.slept = ExpectedSleeps(s.cfg, N)
            /\ s.lastError.retryable
            /\ s.cfg = DefaultRetryConfig => s.slept = <<1000, 2000, 4000>>

\* A call with the default configuration rejected after four failed
\* attempts and the sleeps 1000, 2000, 4000.
C1_Witness ==
  LET s == call["caller"]
  IN /\ AlwaysFailedRetryable(s)
     /\ s.pc = "rejected"
     /\ s.cfg = DefaultRetryConfig
     /\ s.invocations = 4
     /\ s.slept = <<1000, 2000, 4000>>

\* C2: a per-attempt timeout is classified TIMEOUT with retryable = true, so
\* a timeout on attempt k < maxRetries is followed by a backoff sleep and
\* another attempt (the call is not rejected there).
C2_TimeoutIsRetryableTimeout ==
  \A c \in Calls :
    LET s == call[c]
    IN (s.timedOut /\ s.pc \in {"backoff", "rejected"}) =>
         /\ s.lastError.type = "timeout"
         /\ s.lastError.retryable
         /\ s.pc = "rejected" => s.attempt >= s.cfg.maxRetries

\* The remote call answered 503.
IsServiceUnavailable(o) == o.kind = "http" /\ o.status = 503

\* C3: when the remote call fails k times (1 <= k <= maxRetries) with 503
\* and then succeeds, sendQuery returns the success message after exactly
\* k+1 remote calls and exactly k backoff sleeps (1000, 2000 for k = 2), and
\* no RetryState remains for the operation id.  Stated on the settled
\* invocation: if the remote calls made were 503 replies, at most maxRetries
\* of them, possibly followed by the success, then the last one is the
\* success and the counts are as claimed.
C3_TransientFailuresAbsorbed ==
  LET log == query.fetchLog
      s == call["query"]
      n == Len(log)
  IN ( /\ query.pc \in {"settled", "rejected"}
       /\ n >= 1
       /\ IsServiceUnavailable(log[1])
       /\ \A i \in 1..(n - 1) : IsServiceUnavailable(log[i])
       /\ IsServiceUnavailable(log[n]) \/ log[n] = HttpSuccess
       /\ Cardinality({i \in 1..n : IsServiceUnavailable(log[i])}) <= QueryMaxRetries )
     => /\ log[n] = HttpSuccess
        /\ query.result.kind = "answer"
        /\ s.invocations = n
        /\ s.slept = ExpectedSleeps(s.cfg, n - 1)
        /\ n = 3 => s.slept = <<1000, 2000>>
        /\ ~isRetrying(s.id)

\* C4: when the remote call fails with HTTP 401, sendQuery makes exactly one
\* remote call (no retry, no backoff) and returns an error message whose
\* classification is AUTHENTICATION and whose content contains
\* "Authentication failed".
C4_UnauthorizedIsAuthenticationFailure ==
  LET log == query.fetchLog
      s == call["query"]
  IN ( /\ query.pc \in {"settled", "rejected"}
       /\ Len(log) >= 1
       /\ log[1].kind = "http" /\ log[1].status = 401 )
     => /\ Len(log) = 1
        /\ s.invocations = 1
        /\ s.slept = <<>>
        /\ query.pc = "settled"
        /\ query.result.kind = "error"
        /\ query.errorContext.type = "authentication"
        /\ Includes(query.result.content, Str("Authentication failed"))

\* C5: sendQuery never rejects: for every outcome of the remote call and of
\* the retry executor the invocation ends with a ChatMessage, the success
\* answer or an error message.
C5_SendQueryNeverRejects ==
  /\ query.pc # "rejected"
  /\ query.pc = "settled" => query.result.kind \in {"answer", "error"}

\* sendQuery returned an error message after executeWithRetry rejected.
C5_Witness ==
  /\ query.pc = "settled"
  /\ query.result.kind = "error"
  /\ call["query"].pc = "rejected"

\* C6: executeWithRetry invokes the operation exactly once and performs no
\* backoff sleep when the first failure is classified non-retryable (e.g.
\* status 400 or 401), and rejects with the ErrorContext produced by
\* classifying that failure.
C6_NonRetryableFailsAtOnce ==
  LET s == call["caller"]
      first == parseError(s.lastFailure)
  IN ( /\ s.pc \in {"backoff", "rejected"}
       /\ s.invocations = 1
       /\ ~first.thrown
       /\ ~first.ctx.retryable )
     => /\ s.pc = "rejected"
        /\ s.settledWith = "context"
        /\ s.slept = <<>>
        /\ s.lastError = first.ctx
        /\ s.lastFailure.status = 400 => s.lastError.type = "validation"
        /\ s.lastFailure.status = 401 => s.lastError.type = "authentication"

\* A call allowed three retries rejected after one invocation that failed
\* with status 401.
C6_Witness ==
  LET s == call["caller"]
  IN /\ s.pc = "rejected"
     /\ s.cfg.maxRetries = 3
     /\ s.invocations = 1
     /\ s.lastFailure.status = 401
     /\ s.lastError.type = "authentication"
     /\ s.slept = <<>>

\* C7: after executeWithRetry has exhausted its retries for an operation id
\* (every attempt failed with a retryable error), the RetryState for that id
\* is still present and reports the attempts used: isRetrying(id) is true
\* and getRetryCount(id) > 0.
C7_RetryStateStaleAfterExhaustion ==
  LET s == call["caller"]
  IN ( /\ AlwaysFailedRetryable(s)
       /\ s.pc = "rejected"
       /\ s.cfg.maxRetries >= 1 )
     => /\ isRetrying(s.id)
        /\ getRetryCount(s.id) > 0

\* C8: whenever executeWithRetry returns successfully for an operation id,
\* no RetryState entry exists for that id afterwards, however many retryable
\* failures preceded the successful attempt.
C8_SuccessLeavesNoRetryState ==
  \A c \in Calls :
    call[c].pc = "resolved" => ~isRetrying(call[c].id) /\ getRetryCount(call[c].id) = 0

\* A call that resolved on its third attempt, after two backoff sleeps.
C8_Witness ==
  LET s == call["caller"]
  IN /\ s.pc = "resolved"
     /\ s.invocations = 3
     /\ Len(s.slept) = 2

\* The status a failure carries: error.status, else error.response.status.
CarriedStatus(error) ==
  IF error.status >= 100 THEN error.status ELSE error.respStatus

\* The status table of the classifier.
ExpectedType(status) ==
  CASE status = 400 -> "validation"
    [] status = 401 -> "authentication"
    [] status = 429 -> "api_limit"
    [] status \in {500, 502, 503} -> "processing"
    [] OTHER -> "unknown"

ExpectedRetryable(status) == status \in {429, 500, 502, 503}

\* C9: for a failure carrying a numeric HTTP status, parseError classifies
\* by status alone, before any message/name heuristic: 400 -> VALIDATION,
\* 401 -> AUTHENTICATION (both non-retryable), 429 -> API_LIMIT,
\* 500/502/503 -> PROCESSING (both retryable), every other status ->
\* UNKNOWN (non-retryable).
C9_StatusDecidesClassification ==
  (cls.pc = "done" /\ cls.input.kind = "object" /\ CarriedStatus(cls.input) >= 100) =>
    /\ ~cls.out.thrown
    /\ cls.out.ctx.type = ExpectedType(CarriedStatus(cls.input))
    /\ cls.out.ctx.retryable = ExpectedRetryable(CarriedStatus(cls.input))
    /\ cls.out.ctx.code = CarriedStatus(cls.input)

\* A failure with status 504, the name NetworkError and a message containing
\* "fetch" classified UNKNOWN, non-retryable.
C9_Witness ==
  /\ cls.pc = "done"
  /\ cls.input.status = 504
  /\ cls.input.name = "NetworkError"
  /\ cls.input.message = Str("Failed to fetch")
  /\ cls.out.ctx.type = "unknown"
  /\ ~cls.out.ctx.retryable

\* C10: parseError is total: for every raw failure value it returns an
\* ErrorContext and never throws, so executeWithRetry always rejects with
\* an ErrorContext and never with a raw exception.
C10_ParseErrorTotal ==
  /\ cls.pc = "done" => ~cls.out.thrown
  /\ \A c \in Calls : call[c].pc = "rejected" => call[c].settledWith = "context"

\* C11: every error message sendQuery returns carries a retryCount equal to
\* the number of attempts executeWithRetry made for that query.
C11_RetryCountIsAttemptsMade ==
  (query.pc = "settled" /\ query.result.kind = "error")
    => query.result.retryCount = call["query"].invocations

\* C12: when the cache holds an unexpired entry under the cache key of the
\* submitted query, handleSendMessage makes no remote query call and shows the
\* cached value.
C12_CacheHitSkipsRemoteCall ==
  dash.cached # NoData =>
    /\ dash.remoteCalls = 0
    /\ dash.pc = "done" => dash.result.content = dash.cached

\* The entry the last getCache call found under its key is older than its ttl.
LookupFoundExpired ==
  /\ lookup.op = "get"
  /\ lookup.key \in DOMAIN lookup.before
  /\ lookup.at - lookup.before[lookup.key].timestamp > lookup.before[lookup.key].ttl

\* C13: getCache(k) returns a value only when the entry under k is at most
\* ttl old (now - timestamp <= ttl); when the entry is older, getCache(k)
\* returns null and the entry is gone from the cache.
C13_LookupRespectsTtl ==
  /\ (lookup.op = "get" /\ lookup.returned # NoData) =>
        /\ lookup.key \in DOMAIN lookup.before
        /\ lookup.at - lookup.before[lookup.key].timestamp
             <= lookup.before[lookup.key].ttl
  /\ LookupFoundExpired =>
        /\ lookup.returned = NoData
        /\ lookup.key \notin DOMAIN cache

\* getCache was called at instant 150 on an entry stored at instant 0 with
\* ttl 100.
C13_Witness ==
  /\ LookupFoundExpired
  /\ lookup.returned = NoData
  /\ lookup.before[lookup.key].ttl = 100
  /\ lookup.at = 150

\* C14: a successful getCache(k) adds one to the hits of entry k and changes
\* nothing else in the cache (data, timestamp, ttl and the other entries);
\* setCache(k, v) leaves entry k with data v and hits 0.
C14_HitCountsOnce ==
  /\ (lookup.op = "get" /\ lookup.returned # NoData) =>
        /\ lookup.key \in DOMAIN lookup.before
        /\ lookup.returned = lookup.before[lookup.key].data
        /\ cache = [lookup.before EXCEPT ![lookup.key].hits = @ + 1]
  /\ lookup.op = "set" =>
        /\ lookup.key \in DOMAIN cache
        /\ cache[lookup.key].data = lookup.data
        /\ cache[lookup.key].hits = 0

\* set; get; get: the second successful getCache on an entry, with another
\* entry in the cache.
C14_Witness ==
  /\ lookup.op = "get"
  /\ lookup.returned # NoData
  /\ cache[lookup.key].hits = 2
  /\ Cardinality(DOMAIN cache) = 2

\* A word that is not a stop-word (and not an empty piece between spaces).
IsContentWord(word) == word # <<>> /\ Join(word) \notin stopWords

\* A query text without its letter case, its surrounding white space and its
\* stop-words.
WithoutNoise(text) ==
  SelectSeq(Split(Trim(ToLowerCase(Chars(text)))), IsContentWord)

\* C15: two query texts that differ only in letter case, in surrounding white
\* space or in stop-words get the same cache key from optimizeQuery.
C15_NearDuplicatesShareKey ==
  (dash.count >= 2 /\ WithoutNoise(dash.content) = WithoutNoise(dash.previous.content))
    => dash.optimization.cacheKey = dash.previous.cacheKey

\* C16: the performance history never holds more than the cap of 1000
\* samples, whatever number of samples was recorded.
C16_HistoryIsCapped == Len(performanceHistory) <= HistoryLimit

IsCompleted(event) == event.status = "completed"

\* The position of a step in the declared sequence.
NodeIndex(step) == CHOOSE k \in 1..Len(NODE_SEQUENCE) : NODE_SEQUENCE[k] = step

\* The completed events name the nodes in declared order, from the first on.
CompletedInDeclaredOrder(events) ==
  LET completed == SelectSeq(events, IsCompleted)
  IN \A j \in 1..Len(completed) : completed[j].step = NODE_SEQUENCE[j]

\* A node is reported processing only after the node before it was reported
\* completed.
OneNodeAtATime(events) ==
  \A p \in 1..Len(events) :
    (events[p].status = "processing" /\ NodeIndex(events[p].step) > 1) =>
      \E q \in 1..(p - 1) :
        /\ events[q].status = "completed"
        /\ events[q].step = NODE_SEQUENCE[NodeIndex(events[p].step) - 1]

\* The traces array of an event is never shorter than that of the event before.
TracesNeverShrink(events) ==
  \A p \in 1..(Len(events) - 1) : Len(events[p].traces) <= Len(events[p + 1].traces)

\* C17: the node_progress events of a startQueryTracing invocation report the
\* nodes one at a time in NODE_SEQUENCE order: completed events in declared
\* order, node i+1 processing only after node i completed, and a traces array
\* that never shrinks.
C17_NodesInDeclaredOrder ==
  \A c \in Clients :
    /\ CompletedInDeclaredOrder(runs[c].events)
    /\ OneNodeAtATime(runs[c].events)
    /\ TracesNeverShrink(runs[c].events)

\* An invocation has driven all seven nodes and ended.
C17_Witness ==
  \E c \in Clients :
    /\ runs[c].pc = "done"
    /\ Len(SelectSeq(runs[c].events, IsCompleted)) = Len(NODE_SEQUENCE)

\* C18: at most one startQueryTracing invocation is driving a node sequence,
\* and an invocation that returned at the guard emitted no event, whatever
\* the interleaving of startQueryTracing, simulateError and disconnect.
C18_OneSequenceAtATime ==
  /\ Cardinality({c \in Clients : runs[c].pc = "delay"}) <= 1
  /\ \A c \in Clients : runs[c].pc = "skipped" => runs[c].events = <<>>

\* C19: an invocation emits no node_progress event after simulateError has
\* emitted an error event while it was in flight.
C19_NoProgressAfterError ==
  \A c \in Clients : ~runs[c].progressAfterError

\* C20: emit calls every callback registered for the event, in registration
\* order, and no exception of a callback leaves emit.
C20_EmitReachesEveryHandler ==
  /\ emitted.ran = emitted.registered
  /\ ~emitted.threw


\* C21: after sendQuery has settled with a failure, and until the next
\* sendQuery, no entry of the query trace has status processing, whatever
\* node_progress and query_complete events are delivered.
HasProcessing(trace) == \E i \in DOMAIN trace : trace[i].status = "processing"

SettledWithFailure == query.pc = "settled" /\ query.result.kind = "error"

C21_NoProcessingAfterFailure ==
  SettledWithFailure => ~HasProcessing(query.queryTrace)

\* C28: isProcessing is true while a sendQuery invocation is in flight, also
\* when invocations overlap, and false once every invocation has settled.
InFlightInvocations ==
  (IF query.pc \in {"tracing", "executing"} THEN 1 ELSE 0)
  + (IF query.overlapping = "inflight" THEN 1 ELSE 0)

C28_ProcessingWhileInFlight ==
  query.isProcessing <=> InFlightInvocations > 0


\* C22: within one executeWithRetry call at most one invocation of the
\* operation is in flight at any time, also after a per-attempt timeout.
\* withTimeout does not cancel the operation it abandons, which is counted as
\* running from then on (it may never settle).
OperationsInFlight(s) ==
  (IF s.pc = "waiting" THEN 1 ELSE 0) + (IF s.timedOut THEN 1 ELSE 0)

C22_AttemptsAreSequential ==
  \A c \in Calls : OperationsInFlight(call[c]) <= 1

\* A second attempt was made and timed out.
C22_Witness ==
  /\ call["caller"].pc = "rejected"
  /\ call["caller"].timedOut
  /\ call["caller"].invocations = 2


\* The failure has no HTTP status: neither error.status nor error.response.
HasNoHttpStatus(error) ==
  error.kind \in {"object", "string"} /\ error.status = NoStatus
  /\ error.respStatus = NoResponse

IsNetworkFailure(error) ==
  error.name = "NetworkError" \/ Includes(error.message, Str("fetch"))

IsTimeoutFailure(error) ==
  error.name = "TimeoutError" \/ Includes(error.message, Str("timeout"))

IsRateLimitFailure(error) == Includes(error.message, Str("rate limit"))

IsValidationFailure(error) == Includes(error.message, Str("validation"))

\* The classification of a failure without status as the claim lists it.
ListedKind(error) ==
  IF IsNetworkFailure(error) THEN "network"
  ELSE IF IsTimeoutFailure(error) THEN "timeout"
  ELSE IF IsRateLimitFailure(error) THEN "api_limit"
  ELSE "unknown"

\* The same list with the validation heuristic before the fallback.
ListedKindWithValidation(error) ==
  IF ListedKind(error) = "unknown" /\ IsValidationFailure(error) THEN "validation"
  ELSE ListedKind(error)

ClassifiedAs(out, kind) ==
  /\ ~out.thrown
  /\ out.ctx.type = kind
  /\ out.ctx.retryable = (kind \in {"network", "timeout", "api_limit"})
  /\ kind = "unknown" =>
       out.ctx.userMessage = Str("I apologize, but I encountered an error processing your request. Please try again.")

SameClassification(out, ctx) ==
  /\ ~out.thrown
  /\ out.ctx.type = ctx.type
  /\ out.ctx.retryable = ctx.retryable
  /\ out.ctx.userMessage = ctx.userMessage

C25_ParseErrorIdempotent ==
  \A c \in Calls :
    (call[c].pc = "rejected" /\ call[c].settledWith = "context") =>
      SameClassification(parseError(ContextAsRaw(call[c].lastError)), call[c].lastError)


\* C26: executeWithRetry always settles: given that timers fire, every call
\* eventually resolves or rejects, whatever the operation does (it may never
\* settle), after at most maxRetries + 1 invocations of the operation.
C26_AlwaysSettles ==
  \A c \in Calls :
    /\ [](call[c].invocations <= call[c].cfg.maxRetries + 1)
    /\ (call[c].pc \in {"waiting", "backoff"}) ~> (call[c].pc \in {"resolved", "rejected"})

\* A call rejected after maxRetries + 1 attempts, the last of which timed
\* out.
C26_Witness ==
  /\ call["caller"].pc = "rejected"
  /\ call["caller"].cfg.maxRetries = MaxRetriesBound
  /\ call["caller"].invocations = MaxRetriesBound + 1
  /\ call["caller"].timedOut


\* C27: the bus does not stay in the tracing state: once no startQueryTracing
\* invocation is left to run (none is awaiting a delay), isTracing() is
\* false, so that a later startQueryTracing is accepted; also when a
\* subscribed handler threw while an event of the trace was being emitted.
NoInvocationPending == \A c \in Clients : runs[c].pc # "delay"

C27_TracingStateIsLeft == NoInvocationPending => ~isSimulating


\* After close() no reconnect timer is set and no connection is opened.
ClosedStaysClosed ==
  client.closeCalled => (~client.scheduledAfterClose /\ ~client.connectedAfterClose)

\* reconnectAttempts never exceeds maxReconnectAttempts and is 0 while a
\* connection is open.
ReconnectionIsBounded ==
  /\ client.reconnectAttempts <= maxReconnectAttempts
  /\ client.socket = "open" => client.reconnectAttempts = 0

\* C29: after close() the client stays closed (no new connection, no
\* reconnect timer); otherwise reconnection is bounded: reconnectAttempts
\* never exceeds maxReconnectAttempts and is reset to 0 when a connection
\* opens.
C29_ClosedStaysClosedAndReconnectionBounded ==
  ClosedStaysClosed /\ ReconnectionIsBounded


\* query.toLowerCase().trim()
Normalized(text) == Trim(ToLowerCase(Chars(text)))

\* C30: two queries whose lowercased, trimmed texts differ are given
\* different cache keys by optimizeQuery (so that an entry cached for one is
\* not returned for the other).
C30_DistinctQueriesDistinctKeys ==
  (dash.count >= 2 /\ Normalized(dash.content) # Normalized(dash.previous.content))
    => dash.optimization.cacheKey # dash.previous.cacheKey


\* The simulation is driving the node sequence of the submission.
TraceUnderWay == dash.pc = "tracing" /\ runs["first"].pc = "delay"

\* C23: tracing is fire-and-forget: when a query is sent, the first remote
\* call of the retry executor is started without waiting for the node
\* sequence of the trace, so that while the sequence is under way the remote
\* call has been made.
C23_RemoteCallDoesNotWaitForTrace == TraceUnderWay => dash.remoteCalls >= 1

\* The remote call is made only once the node sequence is over.
RemoteCallWaitsForTrace ==
  dash.remoteCalls >= 1 => runs["first"].pc \in {"done", "skipped"}

====
